---- MODULE Spec2Model ----
(***************************************************************************)
(* The chat client of src/main.py as a state machine.                      *)
(*                                                                         *)
(* Three coroutines run on one asyncio event loop: main_async (the         *)
(* driver), the chat_loop task and the stream_events task.  A coroutine    *)
(* runs from one await to the next without interruption, so every action   *)
(* below is one such step: the code between two suspension points.         *)
(*                                                                         *)
(* Text is a sequence of pieces: print(x, end=e) appends the pieces of x   *)
(* and then e.  The terminal is written by three writers; each writer's    *)
(* output is kept in its own log (driverOut, loopOut, readerOut), the      *)
(* terminal showing an interleaving of the three.                          *)
(***************************************************************************)
EXTENDS Integers, Sequences, FiniteSets, TLC

VARIABLES
    budget,          \* how many stream lines / input events this run may see
    serverState,     \* what GET /{id}/state will answer
    driverPc,        \* position of main_async
    stateResult,     \* how the get_chat_state call ended: "none" yet, "ok" or its exception
    driverErr,       \* exception travelling out of main_async, or "none"
    outcome,         \* "running" | "success" | "failure" of asyncio.run
    closes,          \* number of client.aclose() calls completed
    chatPc,          \* position / final state of chat_task
    chatErr,         \* exception chat_task ended with, or "none"
    assistant,       \* chat_loop's local variable assistant
    pending,         \* the transport call chat_loop is awaiting
    typed,           \* input events prompt_async has delivered so far
    requests,        \* requests chat_loop has issued so far
    responses,       \* how each of them ended: "ok" or its exception
    streamPc,        \* position / final state of stream_task
    streamErr,       \* exception stream_task ended with, or "none"
    cancelRequested, \* stream_task.cancel() was called on a live task
    conn,            \* the event-stream connection: "none" | "open" | "released"
    consumed,        \* lines the reader has taken from aiter_lines so far
    outAt,           \* outAt[i] = Len(readerOut) after handling consumed[i]
    driverOut,       \* pieces printed by main_async
    loopOut,         \* pieces printed by chat_loop, prompts included
    readerOut        \* pieces printed by stream_events

vars == <<budget, serverState, driverPc, stateResult, driverErr, outcome, closes,
          chatPc, chatErr, assistant, pending, typed, requests, responses,
          streamPc, streamErr, cancelRequested, conn, consumed, outAt,
          driverOut, loopOut, readerOut>>

driverVars == <<driverPc, stateResult, driverErr, outcome, closes, driverOut>>
chatVars   == <<chatPc, chatErr, assistant, pending, typed, requests, responses, loopOut>>
streamVars == <<streamPc, streamErr, cancelRequested, conn, consumed, outAt, readerOut>>
envVars    == <<budget, serverState>>

----------------------------------------------------------------------------
(* Bounds of the exploration *)

MaxLines      == 4   \* stream lines in a run that studies the reader
MaxInputs     == 2   \* input events (before end-of-input) in a run that studies the loop
MaxTranscript == 2   \* transcript entries in a run that studies the replay

----------------------------------------------------------------------------
(* Text *)

NL == "\n"

\* print that forgets its end argument
print_DefaultEnd(pieces, end) == pieces \o <<NL>>

\* print(*pieces, end=end): the pieces, then the end string
print(pieces, end) == pieces \o end

Last(s) == s[Len(s)]

Has(d, k) == k \in DOMAIN d

----------------------------------------------------------------------------
(* What the server can answer *)

\* Assistant names, as character sequences
Assistants == {<<"abc">>, <<"xyz">>}

\* A transcript entry is a dict; one entry lacks its "role" key.
Entries ==
    { [role |-> "user", content |-> "hi"],
      [role |-> "assistant", content |-> "hello"],
      [role |-> "system", content |-> "sys"],
      [content |-> "orphan"] }

RECURSIVE SeqsUpTo(_, _)
SeqsUpTo(S, n) ==
    IF n = 0 THEN {<<>>}
    ELSE LET shorter == SeqsUpTo(S, n - 1)
         IN  shorter \cup {Append(q, x) : q \in {r \in shorter : Len(r) = n - 1}, x \in S}

\* The chat_state dict: "messages" may be absent.
ChatStates ==
    {[assistant |-> a] : a \in Assistants}
    \cup {[assistant |-> a, messages |-> m] :
             a \in Assistants, m \in SeqsUpTo(Entries, MaxTranscript)}

\* Exceptions of a transport call: raise_for_status() or the network layer.
TransportErrors == {"HTTPStatusError", "ConnectError"}

\* The answers GET /assistants can decode to.
AssistantLists == {<<<<"abc">>>>, <<<<"abc">>, <<"xyz">>>>}

----------------------------------------------------------------------------
(* The event stream: raw lines *)

\* A raw line, cut at column 6: head is line[:6] when the line is that long
\* (else the whole line), rest is line[6:].
DataPrefix == "data: "

BeginText   == "{\"type\": \"begin_message\"}"
ChunkAText  == "{\"type\": \"add_chunk\", \"chunk\": \"A\"}"
ChunkBText  == "{\"type\": \"add_chunk\", \"chunk\": \"B\"}"
EndText     == "{\"type\": \"end_message\"}"
PingText    == "{\"type\": \"ping\"}"
NoChunkText == "{\"type\": \"add_chunk\"}"
ArrayText   == "[\"begin_message\"]"
BrokenText  == "{\"type\": \"begin_mess"

Line(head, rest) == [head |-> head, rest |-> rest]

StreamLines ==
    { Line(DataPrefix, BeginText), Line(DataPrefix, ChunkAText),
      Line(DataPrefix, ChunkBText), Line(DataPrefix, EndText),
      Line(DataPrefix, PingText), Line(DataPrefix, NoChunkText),
      Line(DataPrefix, ArrayText), Line(DataPrefix, BrokenText),
      Line("", ""), Line("event:", BeginText) }

\* any line that is not blank is taken for a payload line
StartsWithData_Loose(line) == line.head # ""

\* line.startswith("data: ")
StartsWithData(line) == line.head = DataPrefix

\* json.loads: the decoded value, or the exception it raises.
Object(o) == [kind |-> "object", obj |-> o]
DecodeError == [kind |-> "JSONDecodeError"]

json_loads(text) ==
    CASE text = BeginText   -> Object([type |-> "begin_message"])
      [] text = ChunkAText  -> Object([type |-> "add_chunk", chunk |-> "A"])
      [] text = ChunkBText  -> Object([type |-> "add_chunk", chunk |-> "B"])
      [] text = EndText     -> Object([type |-> "end_message"])
      [] text = PingText    -> Object([type |-> "ping"])
      [] text = NoChunkText -> Object([type |-> "add_chunk"])
      [] text = ArrayText   -> [kind |-> "array"]
      [] OTHER              -> DecodeError

\* a pattern that looks for the key only
MatchesType_KeyOnly(data, t) ==
    /\ data.kind = "object"
    /\ Has(data.obj, "type")

\* case {"type": t}: a mapping pattern matches a mapping that has the key
\* with that value.
MatchesType(data, t) ==
    /\ data.kind = "object"
    /\ Has(data.obj, "type")
    /\ data.obj.type = t

\* The body of the async for (lines 45-53) on one line: what is printed and
\* the exception raised, if any.
HandleLine(line) ==
    IF ~StartsWithData(line) THEN [out |-> <<>>, err |-> "none"]
    ELSE LET data == json_loads(line.rest) IN
         IF data = DecodeError THEN [out |-> <<>>, err |-> "JSONDecodeError"]
         ELSE IF MatchesType(data, "begin_message")
              THEN [out |-> print(<<NL, "Assistant: ">>, <<>>), err |-> "none"]
         ELSE IF MatchesType(data, "add_chunk")
              THEN IF Has(data.obj, "chunk")
                   THEN [out |-> print(<<data.obj.chunk>>, <<>>), err |-> "none"]
                   ELSE [out |-> <<>>, err |-> "KeyError"]
         ELSE IF MatchesType(data, "end_message")
              THEN [out |-> print(<<NL>>, <<NL>>), err |-> "none"]
         ELSE [out |-> <<>>, err |-> "none"]

----------------------------------------------------------------------------
(* The input loop: typed lines *)

\* A typed line is a sequence of characters; a word that the code never
\* looks into is one character of the sequence.
SP == " "

InputLines ==
    { <<>>, <<SP, SP>>,
      <<"hi">>, <<SP, "hi", SP, "there", SP>>,
      <<"/assistants">>,
      <<"/assistant">>, <<"/assistant", SP, "xyz">>, <<SP, "/assistant", SP, "abc", SP, "xyz">>,
      <<"/assistant", SP, SP, "abc">>,
      <<"/foo", SP, "abc">> }

\* What prompt_async can deliver: a line, or one of the two exceptions.
Interrupt == [kind |-> "KeyboardInterrupt"]
EndOfInput == [kind |-> "EOFError"]
Typed(line) == [kind |-> "line", line |-> line]

\* Words whose first character is "/".
SlashWords == {"/assistants", "/assistant", "/foo"}

\* str.strip(): whitespace removed at both ends
RECURSIVE lstrip(_)
lstrip(s) == IF s # <<>> /\ Head(s) = SP THEN lstrip(Tail(s)) ELSE s

RECURSIVE rstrip(_)
rstrip(s) == IF s # <<>> /\ Last(s) = SP THEN rstrip(SubSeq(s, 1, Len(s) - 1)) ELSE s

strip(s) == rstrip(lstrip(s))

\* only the known commands are taken for commands
StartsWithSlash_Known(s) == s # <<>> /\ Head(s) \in {"/assistants", "/assistant"}

\* str.startswith("/")
StartsWithSlash(s) == s # <<>> /\ Head(s) \in SlashWords

\* str.split(" "): the fields between single spaces, empty fields kept.  A
\* field is "" or the characters between two spaces.
RECURSIVE split(_)
split(s) ==
    LET cut == {i \in 1..Len(s) : s[i] = SP}
    IN  IF cut = {} THEN <<s>>
        ELSE LET i == CHOOSE j \in cut : \A k \in cut : j <= k
             IN  <<SubSeq(s, 1, i - 1)>> \o split(SubSeq(s, i + 1, Len(s)))

\* ', '.join(names)
RECURSIVE join(_, _)
join(sep, names) ==
    IF names = <<>> THEN <<>>
    ELSE IF Len(names) = 1 THEN names[1]
    ELSE names[1] \o sep \o join(sep, Tail(names))

\* Requests as they leave the client
GetAssistantsReq == [op |-> "get_assistants"]
SetAssistantReq(name) == [op |-> "set_assistant", assistant |-> name]
SendMessageReq(content, a) == [op |-> "send_message", content |-> content, assistant |-> a]

NoCall == [op |-> "none"]

PromptText == <<"You: ">>

\* print(f"Error: {type(e).__name__}: {e}")
ErrorLine(e) == print(<<"Error: ", e, ": ", "<message>">>, <<NL>>)

----------------------------------------------------------------------------
(* main_async: the driver *)

\* the replay loop run over the transcript newest first
RECURSIVE Replay_Reversed(_)
Replay_Reversed(messages) ==
    IF messages = <<>> THEN [out |-> <<>>, err |-> "none"]
    ELSE LET message == Last(messages) IN
         IF ~Has(message, "role") THEN [out |-> <<>>, err |-> "KeyError"]
         ELSE LET role == IF message.role = "assistant" THEN "Assistant" ELSE "You"
                  rest == Replay_Reversed(SubSeq(messages, 1, Len(messages) - 1))
              IN  [out |-> print(<<role, ": ", message.content, NL>>, <<NL>>) \o rest.out,
                   err |-> rest.err]

\* Lines 102-104: the replay loop over chat_state["messages"], up to the
\* first entry that raises.
RECURSIVE Replay(_)
Replay(messages) ==
    IF messages = <<>> THEN [out |-> <<>>, err |-> "none"]
    ELSE LET message == Head(messages) IN
         IF ~Has(message, "role") THEN [out |-> <<>>, err |-> "KeyError"]
         ELSE LET role == IF message.role = "assistant" THEN "Assistant" ELSE "You"
                  rest == Replay(Tail(messages))
              IN  [out |-> print(<<role, ": ", message.content, NL>>, <<NL>>) \o rest.out,
                   err |-> rest.err]

TaskDone(pc) == pc \in {"finished", "failed", "cancelled"}

Init ==
    /\ \/ /\ serverState \in ChatStates
          /\ budget = [lines |-> 1, inputs |-> 1]
       \/ /\ serverState = [assistant |-> <<"abc">>]
          /\ budget = [lines |-> MaxLines, inputs |-> 0]
       \/ /\ serverState \in {[assistant |-> a] : a \in Assistants}
          /\ budget = [lines |-> 0, inputs |-> MaxInputs]
    /\ driverPc = "get_chat_state"
    /\ stateResult = "none"
    /\ driverErr = "none"
    /\ outcome = "running"
    /\ closes = 0
    /\ chatPc = "none"
    /\ chatErr = "none"
    /\ assistant = <<>>
    /\ pending = NoCall
    /\ typed = <<>>
    /\ requests = <<>>
    /\ responses = <<>>
    /\ streamPc = "none"
    /\ streamErr = "none"
    /\ cancelRequested = FALSE
    /\ conn = "none"
    /\ consumed = <<>>
    /\ outAt = <<>>
    /\ driverOut = <<>>
    /\ loopOut = <<>>
    /\ readerOut = <<>>

\* the client is closed only on the good path
GetStateFail_NoClose ==
    /\ driverPc = "get_chat_state"
    /\ \E e \in TransportErrors : stateResult' = e /\ driverErr' = e
    /\ driverPc' = "done"
    /\ outcome' = "failure"
    /\ UNCHANGED <<closes, driverOut>>
    /\ UNCHANGED <<chatVars, streamVars, envVars>>

\* a failed get_chat_state that is passed over: the session starts anyway
GetStateFail_Continues ==
    /\ driverPc = "get_chat_state"
    /\ \E e \in TransportErrors : stateResult' = e
    /\ driverPc' = "await_chat"
    /\ assistant' = <<>>
    /\ chatPc' = "created"
    /\ streamPc' = "created"
    /\ UNCHANGED <<driverErr, outcome, closes, driverOut>>
    /\ UNCHANGED <<chatErr, pending, typed, requests, responses, loopOut>>
    /\ UNCHANGED <<streamErr, cancelRequested, conn, consumed, outAt, readerOut>>
    /\ UNCHANGED envVars

\* Line 97 raises: the outer finally is next.
GetStateFail ==
    /\ driverPc = "get_chat_state"
    /\ \E e \in TransportErrors : stateResult' = e /\ driverErr' = e
    /\ driverPc' = "aclose"
    /\ UNCHANGED <<outcome, closes, driverOut>>
    /\ UNCHANGED <<chatVars, streamVars, envVars>>

\* Lines 97-115 when line 97 returns: replay the transcript, create both
\* tasks, await chat_task.  No suspension point lies between.
GetStateOk ==
    /\ driverPc = "get_chat_state"
    /\ LET chat_state == serverState
           replay == IF Has(chat_state, "messages")
                     THEN Replay(chat_state.messages)
                     ELSE [out |-> <<>>, err |-> "none"]
       IN  /\ driverOut' = driverOut \o replay.out
           /\ IF replay.err # "none"
              THEN /\ driverErr' = replay.err
                   /\ driverPc' = "aclose"
                   /\ UNCHANGED <<chatPc, streamPc, assistant>>
              ELSE /\ driverPc' = "await_chat"
                   /\ assistant' = chat_state.assistant
                   /\ chatPc' = "created"
                   /\ streamPc' = "created"
                   /\ UNCHANGED driverErr
    /\ stateResult' = "ok"
    /\ UNCHANGED <<outcome, closes>>
    /\ UNCHANGED <<chatErr, pending, typed, requests, responses, loopOut>>
    /\ UNCHANGED <<streamErr, cancelRequested, conn, consumed, outAt, readerOut>>
    /\ UNCHANGED envVars

\* Lines 120-122 once stream_task is done: CancelledError is passed over,
\* any other exception of the task is raised by the await.
AwaitStreamResult(err) ==
    IF streamPc = "failed" THEN streamErr ELSE err

\* stream_task is left running when chat_task is done
ChatTaskDone_NoCancel ==
    /\ driverPc = "await_chat"
    /\ TaskDone(chatPc)
    /\ streamPc # "created"
    /\ driverErr' = chatErr
    /\ driverPc' = "aclose"
    /\ UNCHANGED <<stateResult, outcome, closes, driverOut>>
    /\ UNCHANGED <<streamVars, chatVars, envVars>>

\* stream_task is cancelled but not awaited
ChatTaskDone_NoAwait ==
    /\ driverPc = "await_chat"
    /\ TaskDone(chatPc)
    /\ streamPc # "created"
    /\ cancelRequested' = ~TaskDone(streamPc)
    /\ driverErr' = chatErr
    /\ driverPc' = "aclose"
    /\ UNCHANGED <<stateResult, outcome, closes, driverOut>>
    /\ UNCHANGED <<streamPc, streamErr, conn, consumed, outAt, readerOut>>
    /\ UNCHANGED <<chatVars, envVars>>

\* Lines 115-120: chat_task is done; the finally cancels stream_task and
\* awaits it.  Awaiting a task that is already done does not suspend.
ChatTaskDone ==
    /\ driverPc = "await_chat"
    /\ TaskDone(chatPc)
    /\ streamPc # "created"
    /\ IF TaskDone(streamPc)
       THEN /\ driverErr' = AwaitStreamResult(chatErr)
            /\ driverPc' = "aclose"
            /\ UNCHANGED cancelRequested
       ELSE /\ cancelRequested' = TRUE
            /\ driverErr' = chatErr
            /\ driverPc' = "await_stream"
    /\ UNCHANGED <<stateResult, outcome, closes, driverOut>>
    /\ UNCHANGED <<streamPc, streamErr, conn, consumed, outAt, readerOut>>
    /\ UNCHANGED <<chatVars, envVars>>

\* Lines 120-123: the awaited stream_task has ended.
StreamTaskDone ==
    /\ driverPc = "await_stream"
    /\ TaskDone(streamPc)
    /\ driverErr' = AwaitStreamResult(driverErr)
    /\ driverPc' = "aclose"
    /\ UNCHANGED <<stateResult, outcome, closes, driverOut>>
    /\ UNCHANGED <<chatVars, streamVars, envVars>>

\* Line 124, then asyncio.run returns or raises.
Close ==
    /\ driverPc = "aclose"
    /\ closes' = closes + 1
    /\ driverPc' = "done"
    /\ outcome' = IF driverErr = "none" THEN "success" ELSE "failure"
    /\ UNCHANGED <<stateResult, driverErr, driverOut>>
    /\ UNCHANGED <<chatVars, streamVars, envVars>>

----------------------------------------------------------------------------
(* chat_loop: the input loop task *)

\* Line 60: the loop is back at session.prompt_async("You: ").
Reprompt(out) == out \o PromptText

\* Line 57 and the first prompt: the first step of chat_task.
ChatStart ==
    /\ chatPc = "created"
    /\ chatPc' = "prompt"
    /\ loopOut' = Reprompt(loopOut)
    /\ UNCHANGED <<chatErr, assistant, pending, typed, requests, responses>>
    /\ UNCHANGED <<driverVars, streamVars, envVars>>

\* Line 57 raises (no usable console): chat_task ends with the exception.
ChatStartFail ==
    /\ chatPc = "created"
    /\ chatPc' = "failed"
    /\ chatErr' = "ConsoleError"
    /\ UNCHANGED <<assistant, pending, typed, requests, responses, loopOut>>
    /\ UNCHANGED <<driverVars, streamVars, envVars>>

\* the message is sent with the assistant of the chat state, not the held one
Dispatch_SendsInitial(line, held) ==
    LET user_input == strip(line) IN
    IF user_input = <<>> THEN [call |-> NoCall, out |-> <<>>]
    ELSE IF StartsWithSlash(user_input)
         THEN LET fields  == split(user_input)
                  command == Head(fields)
                  args    == Tail(fields)
              IN  IF command = <<"/assistants">>
                  THEN [call |-> GetAssistantsReq, out |-> <<>>]
                  ELSE IF command = <<"/assistant">>
                       THEN IF args # <<>>
                            THEN [call |-> SetAssistantReq(args[1]), out |-> <<>>]
                            ELSE [call |-> NoCall,
                                  out |-> print(<<"Selected assistant: ">> \o held \o <<NL>>, <<NL>>)]
                       ELSE [call |-> NoCall, out |-> print(<<"Unknown command", NL>>, <<NL>>)]
         ELSE [call |-> SendMessageReq(user_input, serverState.assistant), out |-> <<>>]

\* Lines 62-82 on one line: the call to await, or the text to print before
\* the next prompt.
Dispatch(line, held) ==
    LET user_input == strip(line) IN
    IF user_input = <<>> THEN [call |-> NoCall, out |-> <<>>]
    ELSE IF StartsWithSlash(user_input)
         THEN LET fields  == split(user_input)
                  command == Head(fields)
                  args    == Tail(fields)
              IN  IF command = <<"/assistants">>
                  THEN [call |-> GetAssistantsReq, out |-> <<>>]
                  ELSE IF command = <<"/assistant">>
                       THEN IF args # <<>>
                            THEN [call |-> SetAssistantReq(args[1]), out |-> <<>>]
                            ELSE [call |-> NoCall,
                                  out |-> print(<<"Selected assistant: ">> \o held \o <<NL>>, <<NL>>)]
                       ELSE [call |-> NoCall, out |-> print(<<"Unknown command", NL>>, <<NL>>)]
         ELSE [call |-> SendMessageReq(user_input, held), out |-> <<>>]

\* Line 60 returns a line.  Input arrives only after both tasks have taken
\* their first step: stream_task's is queued right behind chat_task's.
ChatLine ==
    /\ chatPc = "prompt"
    /\ streamPc # "created"
    /\ Len(typed) < budget.inputs
    /\ \E line \in InputLines :
          LET d == Dispatch(line, assistant) IN
          /\ typed' = Append(typed, Typed(line))
          /\ IF d.call = NoCall
             THEN /\ loopOut' = Reprompt(loopOut \o d.out)
                  /\ UNCHANGED <<chatPc, pending, requests>>
             ELSE /\ chatPc' = "call"
                  /\ pending' = d.call
                  /\ requests' = Append(requests, d.call)
                  /\ UNCHANGED loopOut
    /\ UNCHANGED <<chatErr, assistant, responses>>
    /\ UNCHANGED <<driverVars, streamVars, envVars>>

\* KeyboardInterrupt is taken like end-of-input
ChatInterrupt_Breaks ==
    /\ chatPc = "prompt"
    /\ streamPc # "created"
    /\ Len(typed) < budget.inputs
    /\ typed' = Append(typed, Interrupt)
    /\ chatPc' = "finished"
    /\ UNCHANGED <<chatErr, assistant, pending, requests, responses, loopOut>>
    /\ UNCHANGED <<driverVars, streamVars, envVars>>

\* Lines 84-85: KeyboardInterrupt out of the prompt.
ChatInterrupt ==
    /\ chatPc = "prompt"
    /\ streamPc # "created"
    /\ Len(typed) < budget.inputs
    /\ typed' = Append(typed, Interrupt)
    /\ loopOut' = Reprompt(loopOut)
    /\ UNCHANGED <<chatPc, chatErr, assistant, pending, requests, responses>>
    /\ UNCHANGED <<driverVars, streamVars, envVars>>

\* Lines 86-87: EOFError out of the prompt ends the task.
ChatEOF ==
    /\ chatPc = "prompt"
    /\ streamPc # "created"
    /\ typed' = Append(typed, EndOfInput)
    /\ chatPc' = "finished"
    /\ UNCHANGED <<chatErr, assistant, pending, requests, responses, loopOut>>
    /\ UNCHANGED <<driverVars, streamVars, envVars>>

\* the name is not stored after set_assistant has returned
ChatCallOk_NoUpdate ==
    /\ chatPc = "call"
    /\ \/ /\ pending.op = "get_assistants"
          /\ \E assistants \in AssistantLists :
                loopOut' = Reprompt(loopOut \o
                    print(<<"Available assistants: ">> \o join(<<", ">>, assistants) \o <<NL>>,
                          <<NL>>))
       \/ /\ pending.op = "set_assistant"
          /\ loopOut' = Reprompt(loopOut \o
                print(<<"Selected assistant: ">> \o assistant \o <<NL>>, <<NL>>))
       \/ /\ pending.op = "send_message"
          /\ loopOut' = Reprompt(loopOut)
    /\ chatPc' = "prompt"
    /\ pending' = NoCall
    /\ responses' = Append(responses, "ok")
    /\ UNCHANGED <<chatErr, assistant, typed, requests>>
    /\ UNCHANGED <<driverVars, streamVars, envVars>>

\* Lines 70-76, 82: the awaited call returns.
ChatCallOk ==
    /\ chatPc = "call"
    /\ \/ /\ pending.op = "get_assistants"
          /\ \E assistants \in AssistantLists :
                loopOut' = Reprompt(loopOut \o
                    print(<<"Available assistants: ">> \o join(<<", ">>, assistants) \o <<NL>>,
                          <<NL>>))
          /\ UNCHANGED assistant
       \/ /\ pending.op = "set_assistant"
          /\ assistant' = pending.assistant
          /\ loopOut' = Reprompt(loopOut \o
                print(<<"Selected assistant: ">> \o pending.assistant \o <<NL>>, <<NL>>))
       \/ /\ pending.op = "send_message"
          /\ loopOut' = Reprompt(loopOut)
          /\ UNCHANGED assistant
    /\ chatPc' = "prompt"
    /\ pending' = NoCall
    /\ responses' = Append(responses, "ok")
    /\ UNCHANGED <<chatErr, typed, requests>>
    /\ UNCHANGED <<driverVars, streamVars, envVars>>

\* the name is stored before set_assistant is awaited
ChatCallFail_Assigns ==
    /\ chatPc = "call"
    /\ \E e \in TransportErrors :
          /\ responses' = Append(responses, e)
          /\ loopOut' = Reprompt(loopOut \o ErrorLine(e))
    /\ assistant' = IF pending.op = "set_assistant" THEN pending.assistant ELSE assistant
    /\ chatPc' = "prompt"
    /\ pending' = NoCall
    /\ UNCHANGED <<chatErr, typed, requests>>
    /\ UNCHANGED <<driverVars, streamVars, envVars>>

\* the failed call is sent once more
ChatCallFail_Retries ==
    /\ chatPc = "call"
    /\ \E e \in TransportErrors :
          /\ responses' = Append(responses, e)
          /\ loopOut' = loopOut \o ErrorLine(e)
    /\ requests' = Append(requests, pending)
    /\ UNCHANGED <<chatPc, chatErr, assistant, pending, typed>>
    /\ UNCHANGED <<driverVars, streamVars, envVars>>

\* the exception of the awaited call is not caught: the task ends with it
ChatCallFail_Escapes ==
    /\ chatPc = "call"
    /\ \E e \in TransportErrors :
          /\ responses' = Append(responses, e)
          /\ chatErr' = e
    /\ chatPc' = "failed"
    /\ pending' = NoCall
    /\ UNCHANGED <<assistant, typed, requests, loopOut>>
    /\ UNCHANGED <<driverVars, streamVars, envVars>>

\* Lines 88-90: the awaited call raises.
ChatCallFail ==
    /\ chatPc = "call"
    /\ \E e \in TransportErrors :
          /\ responses' = Append(responses, e)
          /\ loopOut' = Reprompt(loopOut \o ErrorLine(e))
    /\ chatPc' = "prompt"
    /\ pending' = NoCall
    /\ UNCHANGED <<chatErr, assistant, typed, requests>>
    /\ UNCHANGED <<driverVars, streamVars, envVars>>

----------------------------------------------------------------------------
(* stream_events: the reader task *)

\* Line 43: the first step of stream_task sends the request.  The event
\* loop runs the tasks in creation order, chat_task first.
ReaderStart ==
    /\ streamPc = "created"
    /\ chatPc # "created"
    /\ streamPc' = "connecting"
    /\ UNCHANGED <<streamErr, cancelRequested, conn, consumed, outAt, readerOut>>
    /\ UNCHANGED <<driverVars, chatVars, envVars>>

\* Line 43: the response has started; the connection is held.
ReaderConnected ==
    /\ streamPc = "connecting"
    /\ ~cancelRequested
    /\ streamPc' = "reading"
    /\ conn' = "open"
    /\ UNCHANGED <<streamErr, cancelRequested, consumed, outAt, readerOut>>
    /\ UNCHANGED <<driverVars, chatVars, envVars>>

\* Line 43 raises: no connection.
ReaderConnectFail ==
    /\ streamPc = "connecting"
    /\ ~cancelRequested
    /\ streamPc' = "failed"
    /\ streamErr' = "ConnectError"
    /\ UNCHANGED <<cancelRequested, conn, consumed, outAt, readerOut>>
    /\ UNCHANGED <<driverVars, chatVars, envVars>>

\* Lines 44-53: aiter_lines yields a line.  An exception of the body leaves
\* the async with, which closes the response.
ReaderLine ==
    /\ streamPc = "reading"
    /\ ~cancelRequested
    /\ Len(consumed) < budget.lines
    /\ \E line \in StreamLines :
          LET h == HandleLine(line) IN
          /\ consumed' = Append(consumed, line)
          /\ readerOut' = readerOut \o h.out
          /\ outAt' = Append(outAt, Len(readerOut \o h.out))
          /\ IF h.err = "none"
             THEN UNCHANGED <<streamPc, streamErr, conn>>
             ELSE /\ streamPc' = "failed"
                  /\ streamErr' = h.err
                  /\ conn' = "released"
    /\ UNCHANGED cancelRequested
    /\ UNCHANGED <<driverVars, chatVars, envVars>>

\* Line 44: the server ends the response; the coroutine returns.
ReaderStreamEnd ==
    /\ streamPc = "reading"
    /\ ~cancelRequested
    /\ streamPc' = "finished"
    /\ conn' = "released"
    /\ UNCHANGED <<streamErr, cancelRequested, consumed, outAt, readerOut>>
    /\ UNCHANGED <<driverVars, chatVars, envVars>>

\* Line 44 raises: the connection broke.
ReaderStreamError ==
    /\ streamPc = "reading"
    /\ ~cancelRequested
    /\ streamPc' = "failed"
    /\ streamErr' = "ReadError"
    /\ conn' = "released"
    /\ UNCHANGED <<cancelRequested, consumed, outAt, readerOut>>
    /\ UNCHANGED <<driverVars, chatVars, envVars>>

\* the cancelled task ends without leaving the async with
ReaderCancelled_KeepsConn ==
    /\ cancelRequested
    /\ streamPc \in {"connecting", "reading"}
    /\ streamPc' = "cancelled"
    /\ UNCHANGED <<streamErr, cancelRequested, conn, consumed, outAt, readerOut>>
    /\ UNCHANGED <<driverVars, chatVars, envVars>>

\* CancelledError is thrown into the coroutine at its await: the async with
\* is left, which releases a held connection, and the task ends cancelled.
ReaderCancelled ==
    /\ cancelRequested
    /\ streamPc \in {"connecting", "reading"}
    /\ streamPc' = "cancelled"
    /\ conn' = IF conn = "open" THEN "released" ELSE conn
    /\ UNCHANGED <<streamErr, cancelRequested, consumed, outAt, readerOut>>
    /\ UNCHANGED <<driverVars, chatVars, envVars>>

----------------------------------------------------------------------------

Next ==
    \/ GetStateFail
    \/ GetStateOk
    \/ ChatTaskDone
    \/ StreamTaskDone
    \/ Close
    \/ ChatStart
    \/ ChatStartFail
    \/ ChatLine
    \/ ChatInterrupt
    \/ ChatEOF
    \/ ChatCallOk
    \/ ChatCallFail
    \/ ReaderStart
    \/ ReaderConnected
    \/ ReaderConnectFail
    \/ ReaderLine
    \/ ReaderStreamEnd
    \/ ReaderStreamError
    \/ ReaderCancelled

Spec == Init /\ [][Next]_vars

TypeOK ==
    /\ driverPc \in {"get_chat_state", "await_chat", "await_stream", "aclose", "done"}
    /\ chatPc \in {"none", "created", "prompt", "call", "finished", "failed"}
    /\ streamPc \in {"none", "created", "connecting", "reading", "finished", "failed", "cancelled"}
    /\ outcome \in {"running", "success", "failure"}
    /\ conn \in {"none", "open", "released"}
    /\ closes \in 0..1

\* The event loop runs every step that is ready: the driver's and the tasks'
\* own steps, the end of a transport call (the client's default timeout
\* bounds it) and the delivery of a cancellation.  What the user types and
\* what the event stream (opened with timeout=None) delivers is left to the
\* environment.
Fairness ==
    /\ WF_vars(GetStateOk \/ GetStateFail)
    /\ WF_vars(ChatTaskDone)
    /\ WF_vars(StreamTaskDone)
    /\ WF_vars(Close)
    /\ WF_vars(ChatStart \/ ChatStartFail)
    /\ WF_vars(ChatCallOk \/ ChatCallFail)
    /\ WF_vars(ReaderStart)
    /\ WF_vars(ReaderCancelled)

FairSpec == Spec /\ Fairness

----------------------------------------------------------------------------
(* Properties *)

Live(pc) == pc \in {"created", "connecting", "reading"}

\* C1: stream_task is cancelled only after chat_task has ended, main_async
\* does not go past the await of stream_task while that task is live, and
\* the client is closed only when stream_task is not live.
C1_ShutdownOrder ==
    /\ cancelRequested => TaskDone(chatPc)
    /\ driverPc \in {"aclose", "done"} => ~Live(streamPc)
    /\ closes > 0 => ~Live(streamPc) /\ driverPc = "done"
    /\ driverPc = "await_stream" => TaskDone(chatPc) /\ closes = 0

C1_Witness ==
    /\ closes = 1
    /\ streamPc = "cancelled"
    /\ chatPc = "finished"
    /\ conn = "released"

\* C2: once the reader task has ended without having been cancelled while
\* the driver is awaiting chat_task, the driver goes on to the end of
\* main_async, whatever the user does.
ReaderEndedUnasked == TaskDone(streamPc) /\ ~cancelRequested

C2_ReaderEndStopsSession ==
    (ReaderEndedUnasked /\ driverPc = "await_chat") ~> (driverPc = "done")

\* C3: after end-of-input, main_async ends in success, whatever state the
\* reader task was in.
C3_EofIsSuccess ==
    (driverPc = "done" /\ chatPc = "finished") => outcome = "success"

\* C4: a reader cancelled while suspended on the stream holds no connection
\* afterwards, the await of it adds no error to the driver, the driver is
\* free to go on to close the client, and after end-of-input it ends in
\* success.
C4_CancelIsQuiet ==
    streamPc = "cancelled" =>
        /\ conn # "open"
        /\ consumed # <<>> => conn = "released"
        /\ streamErr = "none"
        /\ driverPc = "await_stream" => ENABLED StreamTaskDone
        /\ driverPc \in {"aclose", "done"} => driverErr = chatErr
        /\ driverPc = "done" /\ chatPc = "finished" => outcome = "success"

C4_Witness ==
    /\ streamPc = "cancelled"
    /\ consumed # <<>>
    /\ conn = "released"
    /\ driverPc = "done"
    /\ outcome = "success"

\* C5: chat_loop leaves its iteration only on end-of-input; a call that
\* raises is followed by one error line and the next prompt, and the task
\* never ends with an exception of a line.
IsErrorLineThenPrompt(before, after, e) ==
    after = before \o <<"Error: ", e, ": ", "<message>", NL>> \o <<"You: ">>

C5_LoopCatchesAll ==
    [][ /\ chatPc \in {"prompt", "call"} =>
            \/ chatPc' \in {"prompt", "call"}
            \/ chatPc' = "finished" /\ Last(typed') = EndOfInput /\ chatErr' = "none"
        /\ (Len(responses') > Len(responses) /\ Last(responses') # "ok") =>
            /\ chatPc' = "prompt"
            /\ IsErrorLineThenPrompt(loopOut, loopOut', Last(responses'))
      ]_vars

C5_Witness ==
    /\ Len(responses) = 2
    /\ responses[1] # "ok"
    /\ responses[2] # "ok"
    /\ chatPc = "finished"

\* C6: a "data: " line whose payload does not decode leaves the reader
\* reading and prints nothing.
Malformed(line) == line.head = "data: " /\ line.rest = BrokenText

TookLine == Len(consumed') = Len(consumed) + 1

C6_MalformedIsSwallowed ==
    [][ (TookLine /\ Malformed(Last(consumed'))) =>
            /\ streamPc' = "reading"
            /\ streamErr' = "none"
            /\ readerOut' = readerOut
      ]_vars

\* C7: a line without the "data: " prefix, and a prefixed line holding an
\* object of no known type, print nothing, raise nothing and leave the
\* reader reading.
Ignorable(line) ==
    \/ line.head # "data: "
    \/ line.head = "data: " /\ line.rest = PingText

C7_IgnoredLines ==
    [][ (TookLine /\ Ignorable(Last(consumed'))) =>
            /\ streamPc' = "reading"
            /\ streamErr' = "none"
            /\ conn' = "open"
            /\ readerOut' = readerOut
      ]_vars

C7_Witness ==
    /\ Len(consumed) = 3
    /\ consumed[1].head # "data: "
    /\ consumed[2] = Line("data: ", PingText)
    /\ consumed[3] = Line("data: ", ChunkAText)
    /\ readerOut = <<"A">>
    /\ streamPc = "reading"

\* C8: for every run of lines begin_message, add_chunk(c1) .. add_chunk(cn),
\* end_message that the reader has taken, what the reader printed for them
\* is newline, "Assistant: ", c1 .. cn, newline, newline.
IsChunkLine(line) == line.head = "data: " /\ line.rest \in {ChunkAText, ChunkBText}

ChunkOf(line) == IF line.rest = ChunkAText THEN "A" ELSE "B"

IsTurn(i, j) ==
    /\ i < j
    /\ consumed[i] = Line("data: ", BeginText)
    /\ consumed[j] = Line("data: ", EndText)
    /\ \A k \in (i + 1)..(j - 1) : IsChunkLine(consumed[k])

PrintedFor(i, j) ==
    SubSeq(readerOut, (IF i = 1 THEN 0 ELSE outAt[i - 1]) + 1, outAt[j])

ExpectedTurn(i, j) ==
    <<"\n", "Assistant: ">> \o [k \in 1..(j - i - 1) |-> ChunkOf(consumed[i + k])] \o <<"\n", "\n">>

C8_TurnOutput ==
    \A i, j \in 1..Len(consumed) : IsTurn(i, j) => PrintedFor(i, j) = ExpectedTurn(i, j)

C8_Witness ==
    /\ Len(consumed) = 4
    /\ IsTurn(1, 4)
    /\ ChunkOf(consumed[2]) = "A"
    /\ ChunkOf(consumed[3]) = "B"
    /\ readerOut = <<"\n", "Assistant: ", "A", "B", "\n", "\n">>

\* C9: when get_chat_state raises, no task is created, nothing is printed
\* or prompted, no stream is opened, no request is sent, and main_async
\* ends in failure.
C9_FailedStartup ==
    stateResult \in TransportErrors =>
        /\ driverPc \in {"aclose", "done"}
        /\ chatPc = "none"
        /\ streamPc = "none"
        /\ conn = "none"
        /\ loopOut = <<>>
        /\ readerOut = <<>>
        /\ requests = <<>>
        /\ typed = <<>>
        /\ driverErr = stateResult
        /\ driverPc = "done" => outcome = "failure"

C9_Witness ==
    /\ stateResult \in TransportErrors
    /\ driverPc = "done"
    /\ outcome = "failure"

\* C10: once a task exists (so before any prompt and before the reader's
\* first step), every entry of the transcript that get_chat_state returned
\* has been printed, in the order returned.
RoleLabel(message) == IF message.role = "assistant" THEN "Assistant" ELSE "You"

ExpectedReplay(messages) ==
    [k \in 1..(5 * Len(messages)) |->
        LET message == messages[((k - 1) \div 5) + 1]
            part    == ((k - 1) % 5) + 1
        IN  CASE part = 1 -> RoleLabel(message)
              [] part = 2 -> ": "
              [] part = 3 -> message.content
              [] OTHER    -> "\n"]

C10_ReplayBeforeLive ==
    (Has(serverState, "messages") /\ (chatPc # "none" \/ streamPc # "none" \/ loopOut # <<>>)) =>
        driverOut = ExpectedReplay(serverState.messages)

C10_Witness ==
    /\ Has(serverState, "messages")
    /\ Len(serverState.messages) = 2
    /\ serverState.messages[1].content = "hi"
    /\ serverState.messages[2].content = "hello"
    /\ driverOut = <<"You", ": ", "hi", "\n", "\n", "Assistant", ": ", "hello", "\n", "\n">>
    /\ loopOut = <<"You: ">>
    /\ streamPc = "connecting"

----------------------------------------------------------------------------
(* What each typed line asks for, read off the line itself *)

SetLineXyz == <<"/assistant", " ", "xyz">>
SetLineAbc == <<" ", "/assistant", " ", "abc", " ", "xyz">>
ShowLine   == <<"/assistant">>
ListLine   == <<"/assistants">>
OtherSlashLine == <<"/foo", " ", "abc">>
BlankLines == {<<>>, <<" ", " ">>}
MessageLines == {<<"hi">>, <<" ", "hi", " ", "there", " ">>}

\* "/assistant <name>" with one space before the name
IsSetLine(ev) == ev.kind = "line" /\ ev.line \in {SetLineXyz, SetLineAbc}

NameOf(ev) == IF ev.line = SetLineXyz THEN <<"xyz">> ELSE <<"abc">>

IsLineEvent(ev, lines) == ev.kind = "line" /\ ev.line \in lines

\* A step of the loop that takes a new input event
TookInput == Len(typed') = Len(typed) + 1

\* A step in which the awaited call ends
CallEnded == Len(responses') = Len(responses) + 1

\* The command "/assistant  abc" (two spaces) names no assistant in the
\* sense of the commands above; histories holding it are left aside.
PlainHistory(events) ==
    \A i \in 1..Len(events) :
        ~IsLineEvent(events[i], {<<"/assistant", " ", " ", "abc">>})

CountOf(seq, Test(_)) == Cardinality({i \in 1..Len(seq) : Test(seq[i])})

IsMessageEvent(ev) == IsLineEvent(ev, MessageLines)
IsSendRequest(r) == r.op = "send_message"

C12_SendFailure ==
    [][ /\ (CallEnded /\ pending.op = "send_message" /\ Last(responses') = "HTTPStatusError") =>
              /\ loopOut' = loopOut \o <<"Error: ", "HTTPStatusError", ": ", "<message>", "\n">>
                                    \o <<"You: ">>
              /\ requests' = requests
              /\ chatPc' = "prompt"
        /\ CountOf(requests', IsSendRequest) = CountOf(typed', IsMessageEvent)
      ]_vars

C12_Witness ==
    /\ typed = <<Typed(<<"hi">>), Typed(<<"hi">>)>>
    /\ responses = <<"HTTPStatusError", "ok">>
    /\ Len(requests) = 2
    /\ chatPc = "prompt"

\* C13: the reader task never returns: it ends only cancelled, after the
\* driver asked for it, or failed with an exception.
C13_ReaderNeverReturns ==
    TaskDone(streamPc) =>
        \/ streamPc = "cancelled" /\ cancelRequested
        \/ streamPc = "failed" /\ streamErr # "none"

\* C14: when the events taken from the stream come as begin_message,
\* add_chunk*, end_message per turn, the reader's output never shows two
\* open turns, and every chunk on it stands inside the one open turn.
IsEvent(line) ==
    line.head = "data: " /\ line.rest \in {BeginText, ChunkAText, ChunkBText, EndText}

OpenBefore(i) ==
    Cardinality({k \in 1..(i - 1) : consumed[k] = Line("data: ", BeginText)})
    - Cardinality({k \in 1..(i - 1) : consumed[k] = Line("data: ", EndText)})

WellOrdered ==
    \A i \in 1..Len(consumed) :
        IsEvent(consumed[i]) =>
            OpenBefore(i) = (IF consumed[i].rest = BeginText THEN 0 ELSE 1)

\* Turns open on the output after its p-th piece: a turn shows as newline,
\* label, chunks, newline, newline.
OpenOnDisplay(p) ==
    LET labels   == Cardinality({q \in 1..p : readerOut[q] = "Assistant: "})
        newlines == Cardinality({q \in 1..p : readerOut[q] = "\n"})
    IN  labels - ((newlines - labels) \div 2)

C14_OneOpenTurn ==
    WellOrdered =>
        \A p \in 1..Len(readerOut) :
            /\ OpenOnDisplay(p) \in {0, 1}
            /\ readerOut[p] \in {"A", "B"} => OpenOnDisplay(p) = 1

C14_Witness ==
    /\ consumed = << Line("data: ", BeginText), Line("data: ", ChunkAText),
                     Line("data: ", EndText), Line("data: ", BeginText) >>
    /\ readerOut = <<"\n", "Assistant: ", "A", "\n", "\n", "\n", "Assistant: ">>
    /\ OpenOnDisplay(5) = 0
    /\ OpenOnDisplay(7) = 1

\* C15: every send_message request carries the assistant held when its line
\* was typed: the name of the latest "/assistant <name>" before it that
\* succeeded, or else the assistant that get_chat_state returned.
IsCallEvent(ev) ==
    \/ IsSetLine(ev)
    \/ IsMessageEvent(ev)
    \/ IsLineEvent(ev, {ListLine})

\* The number of the call that the i-th input event made
CallIndex(i) == Cardinality({k \in 1..i : IsCallEvent(typed[k])})

EventOfCall(k) == CHOOSE i \in 1..Len(typed) : IsCallEvent(typed[i]) /\ CallIndex(i) = k

SucceededSets(n) ==
    {i \in 1..n : /\ IsSetLine(typed[i])
                  /\ CallIndex(i) <= Len(responses)
                  /\ responses[CallIndex(i)] = "ok"}

\* The assistant held after the first n input events
HeldAfter(n) ==
    LET done == SucceededSets(n)
    IN  IF done = {} THEN serverState.assistant
        ELSE NameOf(typed[CHOOSE i \in done : \A j \in done : j <= i])

C16_InterruptReprompts ==
    [][ /\ (TookInput /\ Last(typed') = Interrupt) =>
              /\ chatPc' = "prompt"
              /\ loopOut' = loopOut \o <<"You: ">>
              /\ requests' = requests
              /\ pending' = pending
              /\ assistant' = assistant
        /\ (chatPc # "finished" /\ chatPc' = "finished") =>
              TookInput /\ Last(typed') = EndOfInput
        /\ (TookInput /\ Last(typed') # EndOfInput) => chatPc' \in {"prompt", "call"}
      ]_vars

C16_Witness ==
    /\ Len(typed) = 2
    /\ typed[1] = Interrupt
    /\ typed[2] = Typed(<<"hi">>)
    /\ chatPc = "call"
    /\ requests = <<[op |-> "send_message", content |-> <<"hi">>, assistant |-> serverState.assistant]>>

\* C17: a line that begins with "/" once trimmed never sends a message:
\* "/assistants" and "/assistant" run their command, any other prints
\* "Unknown command" and sends nothing; a blank line sends nothing and
\* prints nothing before the next prompt.
SlashLines ==
    {ListLine, ShowLine, SetLineXyz, SetLineAbc, OtherSlashLine,
     <<"/assistant", " ", " ", "abc">>}

TookLine17(lines) == TookInput /\ IsLineEvent(Last(typed'), lines)

C17_CommandsAndBlanks ==
    [][ /\ TookLine17(SlashLines) =>
              \/ requests' = requests
              \/ Len(requests') = Len(requests) + 1 /\ Last(requests').op # "send_message"
        /\ TookLine17({ListLine}) =>
              requests' = Append(requests, [op |-> "get_assistants"])
        /\ TookLine17({SetLineXyz, SetLineAbc}) =>
              requests' = Append(requests, [op |-> "set_assistant",
                                            assistant |-> NameOf(Last(typed'))])
        /\ TookLine17({ShowLine}) =>
              /\ requests' = requests
              /\ loopOut' = loopOut \o <<"Selected assistant: ">> \o assistant
                                    \o <<"\n", "\n", "You: ">>
        /\ TookLine17({OtherSlashLine}) =>
              /\ requests' = requests
              /\ loopOut' = loopOut \o <<"Unknown command", "\n", "\n", "You: ">>
        /\ TookLine17(BlankLines) =>
              /\ requests' = requests
              /\ loopOut' = loopOut \o <<"You: ">>
      ]_vars

C17_Witness ==
    /\ typed = <<Typed(OtherSlashLine), Typed(<<" ", " ">>)>>
    /\ requests = <<>>
    /\ loopOut = <<"You: ", "Unknown command", "\n", "\n", "You: ", "You: ">>

\* C18: when set_assistant raises, the held assistant stays what it was: a
\* bare "/assistant" typed next prints the earlier assistant and a message
\* typed next is sent with it.
AfterFailedSet ==
    /\ typed # <<>>
    /\ IsSetLine(Last(typed))
    /\ responses # <<>>
    /\ Last(responses) # "ok"
    /\ PlainHistory(typed)

C18_FailedSetKeepsAssistant ==
    [][ /\ (CallEnded /\ pending.op = "set_assistant" /\ Last(responses') # "ok") =>
              assistant' = assistant
        /\ (TookInput /\ AfterFailedSet /\ Last(typed') = Typed(ShowLine)) =>
              loopOut' = loopOut \o <<"Selected assistant: ">> \o HeldAfter(Len(typed) - 1)
                                 \o <<"\n", "\n", "You: ">>
        /\ (TookInput /\ AfterFailedSet /\ IsMessageEvent(Last(typed'))) =>
              Last(requests').assistant = HeldAfter(Len(typed) - 1)
      ]_vars

C18_Witness ==
    /\ serverState.assistant = <<"abc">>
    /\ typed = <<Typed(SetLineXyz), Typed(ShowLine)>>
    /\ responses = <<"HTTPStatusError">>
    /\ assistant = <<"abc">>
    /\ loopOut = <<"You: ", "Error: ", "HTTPStatusError", ": ", "<message>", "\n", "You: ",
                   "Selected assistant: ", "abc", "\n", "\n", "You: ">>

\* C19: main_async has closed the client exactly once when it has ended, on
\* whichever path, and never before; a reader task that was created is done
\* by then.
C19_ClosedOnce ==
    /\ closes \in {0, 1}
    /\ driverPc = "done" <=> closes = 1
    /\ driverPc = "done" => streamPc = "none" \/ TaskDone(streamPc)
    /\ driverPc = "done" => outcome # "running"

C19_Witness ==
    /\ driverPc = "done"
    /\ closes = 1
    /\ chatPc = "finished"
    /\ streamPc = "failed"
    /\ outcome = "failure"

\* C20: once the reader task is done, and from the moment the driver is
\* past the await of it, the reader prints nothing more.
C20_SilentAfterDrain ==
    [][ (TaskDone(streamPc) \/ driverPc \in {"aclose", "done"} \/ closes > 0) =>
            /\ readerOut' = readerOut
            /\ consumed' = consumed
      ]_vars

C20_Witness ==
    /\ driverPc = "done"
    /\ streamPc = "cancelled"
    /\ closes = 1
    /\ readerOut = <<"\n", "Assistant: ", "A">>
    /\ Len(consumed) < budget.lines

====
